---- MODULE Spec2Model ----
(***************************************************************************)
(* bare-mpv: the native addon that binds libmpv to the Bare JavaScript     *)
(* runtime (packages/bare-mpv/binding.cc).                                 *)
(*                                                                         *)
(* The state is the content of the two handle records the addon keeps in   *)
(* script-owned arraybuffers (bare_mpv_handle_t, bare_mpv_render_t), the   *)
(* native resources they point to (engine instances, render contexts, the  *)
(* C heap), and a record of the last exported call: the native calls it    *)
(* issued, what it returned and whether it threw.                          *)
(*                                                                         *)
(* libmpv and the js.h embedding API are outside the addon.  Their results *)
(* (status codes, allocation failures) are inputs chosen with \E.          *)
(***************************************************************************)
EXTENDS Integers, Sequences, FiniteSets, TLC

\* ------------------------------------------------------------------ bounds
MaxInst == 1      \* engine instances mpv_create may hand out
MaxCtx  == 1      \* render contexts mpv_render_context_create may hand out
MaxAddr == 3      \* heap blocks malloc / js_create_arraybuffer may hand out

\* ------------------------------------------------------- program constants
NULL          == 0    \* the null pointer; js callbacks returning it yield undefined
BytesPerPixel == 4    \* RGBA
FailStatus    == -1   \* setProperty's initial status
UpdateFrame   == 1    \* MPV_RENDER_UPDATE_FRAME

\* ------------------------------------------------------------ input domains
Status     == {-1, 0, 1}             \* libmpv: negative = error
JsErr      == {0, -1}                \* js.h: 0 = ok
RenderStatus == {-1, 0}              \* mpv_render_context_create / _render
Sizes      == {<<2, 1>>, <<0, 1>>, <<-1, 1>>}   \* int32 width, height given by the script
Pixels     == {7}                    \* byte values the renderer writes
ScriptBytes == {9}                   \* byte values the script writes into a frame
GarbageBytes == {3}                  \* what a block malloc just returned may hold
UpdateFlags == {1, 2}                  \* mpv_render_context_update's flag word
OptStatus  == {-1, 0}                \* mpv_set_option_string's status, which is ignored
Doubles    == {5}
Flags      == {0, 2}
Texts      == {"ab"}
Names      == {"pause"}
Commands   == {<<>>, <<"loadfile", "test.mkv">>}

\* js_value_t arguments, as js_typeof and the js_get_value_* readers see them
JsValue(t, n, b, s) == [type |-> t, num |-> n, bool |-> b, str |-> s]
JsValues ==
    { JsValue("number", n, FALSE, "") : n \in Doubles } \cup
    { JsValue("boolean", 0, b, "") : b \in BOOLEAN } \cup
    { JsValue("string", 0, FALSE, s) : s \in Texts } \cup
    { JsValue(t, 0, FALSE, "") : t \in {"undefined", "null", "object"} }

VARIABLES
    inst,        \* native engine instances: "unused" | "live" | "terminated"
    termCount,   \* per instance: number of mpv_terminate_destroy calls made on it
    engine,      \* bare_mpv_handle_t records, by handle id
    eDestroyed,  \* engine handles destroy() has already run on
    ctxState,    \* native render contexts: "unused" | "live" | "freed"
    ctxFrees,    \* per context: number of mpv_render_context_free calls made on it
    render,      \* bare_mpv_render_t records, by handle id
    rFreed,      \* render handles renderFree() has already run on
    rArgs,       \* per render handle: the width, height renderCreate was given and
                 \* the pixel buffer it allocated
    heap,        \* heap blocks: state "unused" | "live" | "freed", and their bytes
    heapFrees,   \* per block: number of free() calls made on it
    frames,      \* blocks handed to the script by renderFrame, oldest first
    lastOp,      \* the last exported call
    crashed      \* the process died in a native call given a null pointer

vars == <<inst, termCount, engine, eDestroyed, ctxState, ctxFrees, render, rFreed,
          rArgs, heap, heapFrees, frames, lastOp, crashed>>

engineVars == <<inst, termCount, engine, eDestroyed>>
renderVars == <<ctxState, ctxFrees, render, rFreed, rArgs, heap, heapFrees, frames>>

InstIds == 1 .. MaxInst
CtxIds  == 1 .. MaxCtx
Addrs   == 1 .. MaxAddr

\* ------------------------------------------------------------------ records

\* typedef struct { mpv_handle *mpv; } bare_mpv_handle_t;
EngineHandle(m) == [alloc |-> TRUE, mpv |-> m]
NoEngineHandle  == [alloc |-> FALSE, mpv |-> NULL]

\* typedef struct { mpv_render_context *ctx; int width; int height; uint8_t *buffer; }
RenderHandle(c, w, h, b) == [alloc |-> TRUE, ctx |-> c, width |-> w, height |-> h, buffer |-> b]
NoRenderHandle == [alloc |-> FALSE, ctx |-> NULL, width |-> 0, height |-> 0, buffer |-> NULL]

\* one native (libmpv / libc) call made by an exported function: the pointer it
\* was given (target), its other arguments, and the status it returned
Call(fn, target, status) ==
    [fn |-> fn, target |-> target, fmt |-> "", name |-> "", num |-> 0,
     str |-> "", argv |-> <<>>, geom |-> <<>>, status |-> status]
PropCall(fn, target, fmt, name, num, str, status) ==
    [Call(fn, target, status) EXCEPT !.fmt = fmt, !.name = name, !.num = num, !.str = str]

\* a block of the C heap (malloc'd, or the backing store of a script arraybuffer)
Block(bytes) == [state |-> "live", bytes |-> bytes]
NoBlock      == [state |-> "unused", bytes |-> <<>>]
Freed        == [state |-> "freed", bytes |-> <<>>]

\* the js_value_t an exported function returns (kind "NULL": the C null pointer)
Ret(kind, num, str) == [kind |-> kind, num |-> num, str |-> str]
RetNULL == Ret("NULL", 0, "")

\* what one exported call did.  again: the handle had already been destroyed / freed
Op(op, h, calls, ret, raised, again) ==
    [op |-> op, h |-> h, calls |-> calls, ret |-> ret, raised |-> raised, again |-> again,
     arg |-> JsValue("undefined", 0, FALSE, "")]

Init ==
    /\ inst = [i \in InstIds |-> "unused"]
    /\ termCount = [i \in InstIds |-> 0]
    /\ engine = [i \in InstIds |-> NoEngineHandle]
    /\ eDestroyed = {}
    /\ ctxState = [c \in CtxIds |-> "unused"]
    /\ ctxFrees = [c \in CtxIds |-> 0]
    /\ render = [c \in CtxIds |-> NoRenderHandle]
    /\ rFreed = {}
    /\ rArgs = [c \in CtxIds |-> [width |-> 0, height |-> 0, buffer |-> NULL]]
    /\ heap = [a \in Addrs |-> NoBlock]
    /\ heapFrees = [a \in Addrs |-> 0]
    /\ frames = <<>>
    /\ lastOp = Op("load", 0, <<>>, RetNULL, FALSE, FALSE)
    /\ crashed = FALSE

\* ------------------------------------------------------------------ helpers

Min(S) == CHOOSE x \in S : \A y \in S : x <= y

UnusedInst == { i \in InstIds : inst[i] = "unused" }
UnusedCtx  == { c \in CtxIds : ctxState[c] = "unused" }
UnusedAddr == { a \in Addrs : heap[a].state = "unused" }

EngineHandles == { e \in InstIds : engine[e].alloc }
RenderHandles == { r \in CtxIds : render[r].alloc }

\* js_get_callback_info / js_get_arraybuffer_info failed: every exported function
\* returns the C null pointer before it touches a handle or libmpv
ArgError(op) ==
    /\ lastOp' = Op(op, 0, <<>>, RetNULL, FALSE, FALSE)
    /\ UNCHANGED <<engineVars, renderVars, crashed>>

\* a native call that was handed a null pointer killed the process
Crash(op, h, calls) ==
    /\ crashed' = TRUE
    /\ lastOp' = Op(op, h, calls, Ret("crash", 0, ""), FALSE, FALSE)

\* ------------------------------------------------------ engine lifecycle

\* line 36: mpv_create(), and the mpv_handle* it returned (num)
MpvCreate(mpv) == [Call("mpv_create", NULL, 0) EXCEPT !.num = mpv]

\* bare_mpv_create
Create ==
    /\ ~crashed
    /\ UnusedInst # {}
    /\ LET i == Min(UnusedInst) IN
       \E created \in BOOLEAN, err \in JsErr :
          IF ~created
          THEN \* mpv_create returned NULL: js_throw_error
               /\ lastOp' = Op("create", 0, <<MpvCreate(NULL)>>, RetNULL, TRUE, FALSE)
               /\ UNCHANGED <<engineVars, renderVars, crashed>>
          ELSE IF err # 0
          THEN \* js_create_arraybuffer failed: mpv_destroy(mpv), nothing thrown;
               \* the instance is gone again and its address may be handed out anew
               /\ inst' = [inst EXCEPT ![i] = "unused"]
               /\ lastOp' = Op("create", 0,
                               <<MpvCreate(i), Call("mpv_destroy", i, 0)>>,
                               RetNULL, FALSE, FALSE)
               /\ UNCHANGED <<termCount, engine, eDestroyed, renderVars, crashed>>
          ELSE /\ inst' = [inst EXCEPT ![i] = "live"]
               /\ engine' = [engine EXCEPT ![i] = EngineHandle(i)]
               /\ lastOp' = Op("create", i, <<MpvCreate(i)>>, Ret("handle", i, ""), FALSE, FALSE)
               /\ UNCHANGED <<termCount, eDestroyed, renderVars, crashed>>

\* a faulty variant of InitializeThrows: a negative status is thrown
InitializeThrowsOnError(status) == status < 0
\* lines 76-80: bare_mpv_initialize boxes the status as an int32; it never throws
InitializeThrows(status) == FALSE

\* bare_mpv_initialize
Initialize(e) ==
    /\ ~crashed
    /\ \/ ArgError("initialize")
       \/ /\ e \in EngineHandles
          /\ LET m == engine[e].mpv IN
             \/ /\ m = NULL
                /\ Crash("initialize", e,
                      <<PropCall("mpv_set_option_string", m, "", "vo", 0, "libmpv", 0)>>)
                /\ UNCHANGED <<engineVars, renderVars>>
             \/ \E s1 \in OptStatus, s2 \in OptStatus, s3 \in OptStatus, status \in Status :
                   /\ lastOp' = Op("initialize", e,
                         <<PropCall("mpv_set_option_string", m, "", "vo", 0, "libmpv", s1),
                           PropCall("mpv_set_option_string", m, "", "hwdec", 0, "auto", s2),
                           PropCall("mpv_set_option_string", m, "", "keep-open", 0, "yes", s3),
                           Call("mpv_initialize", m, status)>>,
                         Ret("int32", status, ""), InitializeThrows(status), FALSE)
                   /\ UNCHANGED <<engineVars, renderVars, crashed>>

\* a faulty variant of AfterDestroy: the reference is left in the handle
KeepsReference(hd) == hd
\* lines 98-101: the handle after destroy has terminated its live instance
AfterDestroy(hd) == [hd EXCEPT !.mpv = NULL]

\* bare_mpv_destroy
Destroy(e) ==
    /\ ~crashed
    /\ \/ ArgError("destroy")
       \/ /\ e \in EngineHandles
          /\ LET m == engine[e].mpv IN
             IF m # NULL
             THEN /\ inst' = [inst EXCEPT ![m] = "terminated"]
                  /\ termCount' = [termCount EXCEPT ![m] = @ + 1]
                  /\ engine' = [engine EXCEPT ![e] = AfterDestroy(@)]
                  /\ lastOp' = Op("destroy", e, <<Call("mpv_terminate_destroy", m, 0)>>,
                                  RetNULL, FALSE, e \in eDestroyed)
             ELSE /\ lastOp' = Op("destroy", e, <<>>, RetNULL, FALSE, e \in eDestroyed)
                  /\ UNCHANGED <<inst, termCount, engine>>
          /\ eDestroyed' = eDestroyed \cup {e}
          /\ UNCHANGED <<renderVars, crashed>>

\* ------------------------------------------------- commands and properties

\* lines 128-141: the char* array handed to mpv_command, one copy of each string
\* and a terminating null pointer (written "<null>")
CommandArgs(args) == [i \in 1 .. Len(args) + 1 |-> IF i <= Len(args) THEN args[i] ELSE "<null>"]

\* bare_mpv_command
Command(e) ==
    /\ ~crashed
    /\ \/ ArgError("command")
       \/ /\ e \in EngineHandles
          /\ LET m == engine[e].mpv IN
             \E args \in Commands, status \in Status :
                LET call == [Call("mpv_command", m, status) EXCEPT !.argv = CommandArgs(args)] IN
                \/ /\ m = NULL
                   /\ Crash("command", e, <<call>>)
                   /\ UNCHANGED <<engineVars, renderVars>>
                \/ /\ lastOp' = Op("command", e, <<call>>, Ret("int32", status, ""), FALSE, FALSE)
                   /\ UNCHANGED <<engineVars, renderVars, crashed>>

\* What libmpv answers to one mpv_get_property probe.  On an error it stores
\* nothing: the char* the string probe was given stays NULL (line 191).  On
\* success of the string probe it stores a string it allocated (client.h).
DoubleReplies == [status : Status, value : Doubles]
FlagReplies   == [status : Status, value : Flags]
StringReplies == { [status |-> s, null |-> s < 0, text |-> IF s < 0 THEN "" ELSE t] :
                   s \in Status, t \in Texts }

GetCall(m, fmt, name, status) == PropCall("mpv_get_property", m, fmt, name, 0, "", status)

\* a faulty variant of GetPropertyResult: the flag probe goes first
GetPropertyFlagFirst(m, name, d, f, s) ==
    IF f.status >= 0
    THEN [calls |-> <<GetCall(m, "flag", name, f.status)>>,
          ret |-> Ret("boolean", IF f.value # 0 THEN 1 ELSE 0, "")]
    ELSE IF d.status >= 0
    THEN [calls |-> <<GetCall(m, "flag", name, f.status), GetCall(m, "double", name, d.status)>>,
          ret |-> Ret("double", d.value, "")]
    ELSE [calls |-> <<GetCall(m, "flag", name, f.status), GetCall(m, "double", name, d.status),
                      GetCall(m, "string", name, s.status)>>,
          ret |-> IF s.status >= 0 /\ ~s.null THEN Ret("string", 0, s.text)
                  ELSE Ret("undefined", 0, "")]

\* lines 171-203: the probes bare_mpv_get_property makes and the value it returns,
\* given libmpv's answers d, f, s to the double, flag and string probes
GetPropertyResult(m, name, d, f, s) ==
    LET c1 == GetCall(m, "double", name, d.status)
        c2 == GetCall(m, "flag", name, f.status)
        c3 == GetCall(m, "string", name, s.status)
    IN  IF d.status >= 0
        THEN [calls |-> <<c1>>, ret |-> Ret("double", d.value, "")]
        ELSE IF f.status >= 0
        THEN [calls |-> <<c1, c2>>, ret |-> Ret("boolean", IF f.value # 0 THEN 1 ELSE 0, "")]
        ELSE IF s.status >= 0 /\ ~s.null
        THEN [calls |-> <<c1, c2, c3, PropCall("mpv_free", 1, "", "", 0, s.text, 0)>>,
              ret |-> Ret("string", 0, s.text)]
        ELSE [calls |-> <<c1, c2, c3>>, ret |-> Ret("undefined", 0, "")]

\* bare_mpv_get_property
GetProperty(e) ==
    /\ ~crashed
    /\ \/ ArgError("getProperty")
       \/ /\ e \in EngineHandles
          /\ LET m == engine[e].mpv IN
             \E name \in Names, d \in DoubleReplies, f \in FlagReplies, s \in StringReplies :
                LET res == GetPropertyResult(m, name, d, f, s) IN
                \/ /\ m = NULL
                   /\ Crash("getProperty", e, <<res.calls[1]>>)
                   /\ UNCHANGED <<engineVars, renderVars>>
                \/ /\ lastOp' = Op("getProperty", e, res.calls, res.ret, FALSE, FALSE)
                   /\ UNCHANGED <<engineVars, renderVars, crashed>>

\* a faulty variant of SetPropertyResult: a value of any other type is set as a string
SetPropertyStringFallback(m, name, value, status) ==
    IF value.type = "number"
    THEN [calls |-> <<PropCall("mpv_set_property", m, "double", name, value.num, "", status)>>,
          ret |-> Ret("int32", status, "")]
    ELSE IF value.type = "boolean"
    THEN [calls |-> <<PropCall("mpv_set_property", m, "flag", name,
                               IF value.bool THEN 1 ELSE 0, "", status)>>,
          ret |-> Ret("int32", status, "")]
    ELSE [calls |-> <<PropCall("mpv_set_property_string", m, "string", name, 0, value.str, status)>>,
          ret |-> Ret("int32", status, "")]

\* lines 227-252: the native setter bare_mpv_set_property calls for a value and
\* the int32 it returns, given the status libmpv answers
SetPropertyResult(m, name, value, status) ==
    IF value.type = "number"
    THEN [calls |-> <<PropCall("mpv_set_property", m, "double", name, value.num, "", status)>>,
          ret |-> Ret("int32", status, "")]
    ELSE IF value.type = "boolean"
    THEN [calls |-> <<PropCall("mpv_set_property", m, "flag", name,
                               IF value.bool THEN 1 ELSE 0, "", status)>>,
          ret |-> Ret("int32", status, "")]
    ELSE IF value.type = "string"
    THEN [calls |-> <<PropCall("mpv_set_property_string", m, "string", name, 0, value.str, status)>>,
          ret |-> Ret("int32", status, "")]
    ELSE [calls |-> <<>>, ret |-> Ret("int32", FailStatus, "")]

\* bare_mpv_set_property.  arg: the script value, kept for the claims
SetProperty(e) ==
    /\ ~crashed
    /\ \/ ArgError("setProperty")
       \/ /\ e \in EngineHandles
          /\ LET m == engine[e].mpv IN
             \E name \in Names, value \in JsValues, status \in Status :
                LET res == SetPropertyResult(m, name, value, status) IN
                \/ /\ m = NULL
                   /\ res.calls # <<>>
                   /\ Crash("setProperty", e, res.calls)
                   /\ UNCHANGED <<engineVars, renderVars>>
                \/ /\ lastOp' = [Op("setProperty", e, res.calls, res.ret, FALSE, FALSE)
                                 EXCEPT !.arg = value]
                   /\ UNCHANGED <<engineVars, renderVars, crashed>>

\* ------------------------------------------------------------ render path

\* line 300: malloc(width * height * 4).  The int product becomes a size_t, so
\* a negative product is a request no allocator can serve; a request of 0 bytes
\* may yield NULL or an empty block; any request may fail.
MallocSize(w, h) == w * h * BytesPerPixel
MallocMayReturn(size) ==
    {NULL} \cup (IF size >= 0 /\ UnusedAddr # {} THEN {Min(UnusedAddr)} ELSE {})

\* a fresh malloc'd block of size bytes
Fresh(size) == Block([i \in 1 .. size |-> CHOOSE g \in GarbageBytes : TRUE])

\* a faulty variant of HandleAllocFailed: the render context is not released
HandleAllocFailedLeak(m, c, status) ==
    /\ ctxState' = [ctxState EXCEPT ![c] = "live"]
    /\ lastOp' = Op("renderCreate", 0, <<Call("mpv_render_context_create", m, status)>>,
                    RetNULL, FALSE, FALSE)
    /\ UNCHANGED <<ctxFrees, render, rFreed, rArgs, heap, heapFrees, frames, engineVars, crashed>>

\* lines 292-295: js_create_arraybuffer failed after the context c was created
HandleAllocFailed(m, c, status) ==
    /\ ctxState' = [ctxState EXCEPT ![c] = "freed"]
    /\ ctxFrees' = [ctxFrees EXCEPT ![c] = @ + 1]
    /\ lastOp' = Op("renderCreate", 0,
                    <<Call("mpv_render_context_create", m, status),
                      Call("mpv_render_context_free", c, 0)>>,
                    RetNULL, FALSE, FALSE)
    /\ UNCHANGED <<render, rFreed, rArgs, heap, heapFrees, frames, engineVars, crashed>>

\* bare_mpv_render_create
RenderCreate(e) ==
    /\ ~crashed
    /\ \/ ArgError("renderCreate")
       \/ /\ e \in EngineHandles
          /\ LET m == engine[e].mpv IN
             \E wh \in Sizes, status \in RenderStatus, err \in JsErr :
                LET w == wh[1]
                    h == wh[2]
                IN
                \/ /\ m = NULL
                   /\ Crash("renderCreate", e, <<Call("mpv_render_context_create", m, status)>>)
                   /\ UNCHANGED <<engineVars, renderVars>>
                \/ /\ status < 0
                   \* js_throw_error; *res was left NULL
                   /\ lastOp' = Op("renderCreate", 0,
                                   <<Call("mpv_render_context_create", m, status)>>,
                                   RetNULL, TRUE, FALSE)
                   /\ UNCHANGED <<engineVars, renderVars, crashed>>
                \/ /\ status >= 0
                   /\ m # NULL
                   /\ UnusedCtx # {}
                   /\ LET c == Min(UnusedCtx) IN
                      IF err # 0
                      THEN HandleAllocFailed(m, c, status)
                      ELSE \E b \in MallocMayReturn(MallocSize(w, h)) :
                              /\ ctxState' = [ctxState EXCEPT ![c] = "live"]
                              /\ render' = [render EXCEPT ![c] = RenderHandle(c, w, h, b)]
                              /\ rArgs' = [rArgs EXCEPT ![c] = [width |-> w, height |-> h, buffer |-> b]]
                              /\ heap' = IF b = NULL THEN heap
                                         ELSE [heap EXCEPT ![b] = Fresh(MallocSize(w, h))]
                              /\ lastOp' = Op("renderCreate", c,
                                     <<Call("mpv_render_context_create", m, status),
                                       [Call("malloc", b, 0) EXCEPT !.num = MallocSize(w, h)]>>,
                                     Ret("handle", c, ""), FALSE, FALSE)
                              /\ UNCHANGED <<ctxFrees, rFreed, heapFrees, frames, engineVars, crashed>>

\* a faulty variant of TornDown: only the render context is tested
TornDownCtxOnly(hd) == hd.ctx = NULL
\* line 320: if (!handle->ctx || !handle->buffer)
TornDown(hd) == hd.ctx = NULL \/ hd.buffer = NULL

\* line 330: int pitch = w * 4
Pitch(w) == w * BytesPerPixel

\* mpv_render_context_render on success: h rows of w RGBA pixels, pitch bytes
\* apart, written from the start of the target block
Rendered(bytes, w, h, pitch, px) ==
    [i \in 1 .. Len(bytes) |->
        IF w > 0 /\ h > 0 /\ i <= h * pitch /\ ((i - 1) % pitch) < w * BytesPerPixel
        THEN px ELSE bytes[i]]

\* line 356: memcpy(data, handle->buffer, buffer_size) into a zero-filled arraybuffer
Copied(bytes, size) == [i \in 1 .. size |-> IF i <= Len(bytes) THEN bytes[i] ELSE 0]

\* a faulty variant of FrameBlock: the script is handed a view of the internal buffer
FrameBlockAliased(buffer, data) == buffer
\* lines 353-362: the block behind the value handed to the script is the
\* arraybuffer just created (data), not handle->buffer
FrameBlock(buffer, data) == data

\* bare_mpv_render_frame
RenderFrame(r) ==
    /\ ~crashed
    /\ \/ ArgError("renderFrame")
       \/ /\ r \in RenderHandles
          /\ LET hd == render[r] IN
             IF TornDown(hd)
             THEN /\ lastOp' = Op("renderFrame", r, <<>>, Ret("null", 0, ""), FALSE, r \in rFreed)
                  /\ UNCHANGED <<engineVars, renderVars, crashed>>
             ELSE LET w == hd.width
                      h == hd.height
                      pitch == Pitch(w)
                  IN
                  \E status \in RenderStatus, px \in Pixels, err1 \in JsErr, err2 \in JsErr :
                     LET call == [Call("mpv_render_context_render", hd.ctx, status)
                                  EXCEPT !.fmt = "rgba", !.geom = <<w, h, pitch, hd.buffer>>]
                     IN
                     \/ \* the renderer was handed a null target pointer
                        /\ hd.buffer = NULL
                        /\ Crash("renderFrame", r, <<call>>)
                        /\ UNCHANGED <<engineVars, renderVars>>
                     \/ /\ hd.buffer # NULL
                        /\ status < 0
                        /\ lastOp' = Op("renderFrame", r, <<call>>, Ret("null", 0, ""),
                                        FALSE, r \in rFreed)
                        /\ UNCHANGED <<engineVars, renderVars, crashed>>
                     \/ /\ hd.buffer # NULL
                        /\ status >= 0
                        /\ LET internal == Rendered(heap[hd.buffer].bytes, w, h, pitch, px)
                               size == w * h * BytesPerPixel
                           IN
                           IF err1 # 0 \/ UnusedAddr = {}
                           THEN \* js_create_arraybuffer failed: return NULL
                                /\ heap' = [heap EXCEPT ![hd.buffer].bytes = internal]
                                /\ lastOp' = Op("renderFrame", r, <<call>>, RetNULL, FALSE, r \in rFreed)
                                /\ UNCHANGED <<ctxState, ctxFrees, render, rFreed, rArgs,
                                               heapFrees, frames, engineVars, crashed>>
                           ELSE LET data == Min(UnusedAddr)
                                    out == FrameBlock(hd.buffer, data)
                                IN
                                /\ heap' = [heap EXCEPT ![hd.buffer].bytes = internal,
                                                        ![data] = Block(Copied(internal, size))]
                                /\ frames' = Append(frames, out)
                                /\ lastOp' = Op("renderFrame", r, <<call>>,
                                       Ret(IF err2 # 0 THEN "arraybuffer" ELSE "uint8array", out, ""),
                                       FALSE, r \in rFreed)
                                /\ UNCHANGED <<ctxState, ctxFrees, render, rFreed, rArgs,
                                               heapFrees, engineVars, crashed>>

\* a faulty variant of AfterRenderFree: the context pointer is left in the handle
AfterRenderFreeKeepsCtx(hd) == [hd EXCEPT !.buffer = NULL]
\* a faulty variant of AfterRenderFree: the whole record is cleared
AfterRenderFreeCleared(hd) == [hd EXCEPT !.ctx = NULL, !.buffer = NULL, !.width = 0, !.height = 0]
\* lines 382, 387: the handle record after renderFree
AfterRenderFree(hd) == [hd EXCEPT !.ctx = NULL, !.buffer = NULL]

\* bare_mpv_render_free
RenderFree(r) ==
    /\ ~crashed
    /\ \/ ArgError("renderFree")
       \/ /\ r \in RenderHandles
          /\ LET hd == render[r]
                 freeCtx == IF hd.ctx # NULL
                            THEN <<Call("mpv_render_context_free", hd.ctx, 0)>> ELSE <<>>
                 freeBuf == IF hd.buffer # NULL
                            THEN <<Call("free", hd.buffer, 0)>> ELSE <<>>
             IN
             /\ IF hd.ctx # NULL
                THEN /\ ctxState' = [ctxState EXCEPT ![hd.ctx] = "freed"]
                     /\ ctxFrees' = [ctxFrees EXCEPT ![hd.ctx] = @ + 1]
                ELSE UNCHANGED <<ctxState, ctxFrees>>
             /\ IF hd.buffer # NULL
                THEN /\ heap' = [heap EXCEPT ![hd.buffer] = Freed]
                     /\ heapFrees' = [heapFrees EXCEPT ![hd.buffer] = @ + 1]
                ELSE UNCHANGED <<heap, heapFrees>>
             /\ render' = [render EXCEPT ![r] = AfterRenderFree(hd)]
             /\ rFreed' = rFreed \cup {r}
             /\ lastOp' = Op("renderFree", r, freeCtx \o freeBuf, RetNULL, FALSE, r \in rFreed)
             /\ UNCHANGED <<rArgs, frames, engineVars, crashed>>

\* line 409: (flags & MPV_RENDER_UPDATE_FRAME) != 0
NeedsRender(flags) == (flags % (2 * UpdateFrame)) \div UpdateFrame = 1

\* bare_mpv_render_update
RenderUpdate(r) ==
    /\ ~crashed
    /\ \/ ArgError("renderUpdate")
       \/ /\ r \in RenderHandles
          /\ LET hd == render[r] IN
             \E flags \in UpdateFlags :
                LET call == [Call("mpv_render_context_update", hd.ctx, 0) EXCEPT !.num = flags] IN
                \/ /\ hd.ctx = NULL
                   /\ Crash("renderUpdate", r, <<call>>)
                   /\ UNCHANGED <<engineVars, renderVars>>
                \/ /\ lastOp' = Op("renderUpdate", r, <<call>>,
                                   Ret("boolean", IF NeedsRender(flags) THEN 1 ELSE 0, ""),
                                   FALSE, r \in rFreed)
                   /\ UNCHANGED <<engineVars, renderVars, crashed>>

\* ------------------------------------------------------------------ script

\* The script stores a byte into a frame renderFrame handed it.
ScriptWrite(k) ==
    /\ ~crashed
    /\ k \in 1 .. Len(frames)
    /\ LET a == frames[k] IN
       /\ heap[a].state = "live"
       /\ Len(heap[a].bytes) > 0
       /\ \E i \in {Len(heap[a].bytes)}, v \in ScriptBytes :
             /\ heap' = [heap EXCEPT ![a].bytes[i] = v]
             /\ lastOp' = Op("write", k, <<>>, RetNULL, FALSE, FALSE)
       /\ UNCHANGED <<engineVars, ctxState, ctxFrees, render, rFreed, rArgs, heapFrees,
                      frames, crashed>>

\* -------------------------------------------------------------- specification

\* The script configures and queries the engine before it creates its first
\* render context; from then on it renders.  The engine lifecycle calls may come
\* at any time.
Configuring == \A c \in CtxIds : ctxState[c] = "unused"

Next ==
    \/ Create
    \/ \E e \in InstIds : Destroy(e)
    \/ Configuring /\ \E e \in InstIds : Initialize(e)
    \/ Configuring /\ \E e \in InstIds : Command(e)
    \/ Configuring /\ \E e \in InstIds : GetProperty(e)
    \/ Configuring /\ \E e \in InstIds : SetProperty(e)
    \/ \E e \in InstIds : RenderCreate(e)
    \/ \E r \in CtxIds : RenderFrame(r)
    \/ \E r \in CtxIds : RenderFree(r)
    \/ \E r \in CtxIds : RenderUpdate(r)
    \/ \E k \in Addrs : ScriptWrite(k)

Spec == Init /\ [][Next]_vars

\* ------------------------------------------------------------------ claims

IsProbe(c) == c.fn = "mpv_get_property"
Probes == SelectSeq(lastOp.calls, IsProbe)
ProbeOrder == <<"double", "flag", "string">>
ProbeKind == <<"double", "boolean", "string">>
HandedFrame == lastOp.op = "renderFrame" /\ lastOp.ret.kind \in {"uint8array", "arraybuffer"}

\* C1: a render context is released at most once and a pixel buffer is freed
\* at most once; a renderFree on a handle renderFree already ran on makes no
\* native call, raises nothing, and the handle holds neither reference.
RenderFreeReleasesOnce ==
    /\ \A c \in CtxIds : ctxFrees[c] <= 1
    /\ \A a \in Addrs : heapFrees[a] <= 1
    /\ \A r \in rFreed : render[r].ctx = NULL /\ render[r].buffer = NULL
    /\ (lastOp.op = "renderFree" /\ lastOp.again) =>
          /\ lastOp.calls = <<>>
          /\ ~lastOp.raised
          /\ lastOp.ret = RetNULL

\* C1 witness: a second renderFree on a handle whose context and buffer the
\* first one released
RenderFreeTwice ==
    /\ lastOp.op = "renderFree"
    /\ lastOp.again
    /\ ctxFrees[lastOp.h] = 1
    /\ rArgs[lastOp.h].buffer # NULL
    /\ heapFrees[rArgs[lastOp.h].buffer] = 1

\* C2: over the destroy calls on an engine handle the engine is terminated
\* exactly once, by the first of them, which nulls the reference; every later
\* destroy makes no native call.
DestroyTerminatesOnce ==
    /\ \A e \in InstIds :
          /\ termCount[e] = (IF e \in eDestroyed THEN 1 ELSE 0)
          /\ e \in eDestroyed => engine[e].mpv = NULL /\ inst[e] = "terminated"
          /\ (e \in EngineHandles /\ e \notin eDestroyed) => engine[e].mpv = e /\ inst[e] = "live"
    /\ (lastOp.op = "destroy" /\ lastOp.h # 0) =>
          /\ lastOp.again => lastOp.calls = <<>>
          /\ ~lastOp.again => lastOp.calls = <<Call("mpv_terminate_destroy", lastOp.h, 0)>>

\* C2 witness: a destroy after an earlier destroy of the same handle
DestroyTwice ==
    /\ lastOp.op = "destroy"
    /\ lastOp.again
    /\ termCount[lastOp.h] = 1

\* C3: renderFrame on a handle without context or without buffer returns null,
\* makes no native call and raises nothing; when the native render call
\* returns a negative status it returns null as well; a renderFrame that
\* returns null hands the script no buffer.
RenderFrameNullSentinel ==
    /\ [](/\ (lastOp.op = "renderFrame" /\ lastOp.h # 0 /\ TornDown(render[lastOp.h])) =>
                /\ lastOp.ret = Ret("null", 0, "")
                /\ lastOp.calls = <<>>
                /\ ~lastOp.raised
          /\ (lastOp.op = "renderFrame" /\ lastOp.calls # <<>>
                /\ lastOp.calls[1].status < 0) =>
                /\ lastOp.ret = Ret("null", 0, "")
                /\ ~lastOp.raised)
    /\ [][(lastOp'.op = "renderFrame" /\ lastOp'.ret.kind = "null") => frames' = frames]_vars

\* C3 witness: renderFrame returned null on a handle that had produced a frame
\* and was then freed
RenderFrameAfterFree ==
    /\ lastOp.op = "renderFrame"
    /\ lastOp.again
    /\ lastOp.ret.kind = "null"
    /\ frames # <<>>

\* C4: a renderUpdate on a handle renderFree has run on passes no null render
\* context to mpv_render_context_update.
RenderUpdateAfterFreeSafe ==
    (lastOp.op = "renderUpdate" /\ lastOp.h # 0 /\ lastOp.h \in rFreed) =>
        \A i \in 1 .. Len(lastOp.calls) :
            lastOp.calls[i].fn = "mpv_render_context_update" => lastOp.calls[i].target # NULL

\* C5: every live render context and every live malloc'd block belongs to a
\* render handle the script was given (or is a frame the script holds); after
\* renderFree the context and the buffer renderCreate made for the handle are
\* released; a renderCreate that returned no handle left no context allocated.
NoRenderLeak ==
    /\ \A c \in CtxIds : ctxState[c] = "live" => render[c].alloc /\ render[c].ctx = c
    /\ \A a \in Addrs : heap[a].state = "live" =>
          \/ \E k \in 1 .. Len(frames) : frames[k] = a
          \/ \E r \in RenderHandles : render[r].buffer = a
    /\ \A r \in rFreed :
          /\ ctxState[r] = "freed"
          /\ rArgs[r].buffer # NULL => heap[rArgs[r].buffer].state = "freed"
    /\ (lastOp.op = "renderCreate" /\ lastOp.ret.kind # "handle") =>
          \A i \in 1 .. Len(lastOp.calls) :
              (lastOp.calls[i].fn = "mpv_render_context_create" /\ lastOp.calls[i].status >= 0
                 /\ lastOp.ret.kind # "crash")
              => \E j \in 1 .. Len(lastOp.calls) : lastOp.calls[j].fn = "mpv_render_context_free"

\* C5 witness: renderFree released the context and the buffer of a handle
\* created with positive width and height
CreateThenFree ==
    /\ lastOp.op = "renderFree"
    /\ ~lastOp.again
    /\ Len(lastOp.calls) = 2
    /\ rArgs[lastOp.h].width > 0
    /\ rArgs[lastOp.h].height > 0
    /\ frames = <<>>

\* C6: every frame handed to the script is a block of its own, holding a copy
\* of the internal buffer as of the call; a write to one frame changes no other
\* frame and no internal buffer, and no later call changes a frame.
FramesIndependent ==
    /\ [](/\ \A k \in 1 .. Len(frames) :
                /\ heap[frames[k]].state = "live"
                /\ \A r \in RenderHandles : render[r].buffer # frames[k]
                /\ \A j \in 1 .. Len(frames) : j # k => frames[j] # frames[k]
          /\ HandedFrame =>
                /\ lastOp.ret.num = frames[Len(frames)]
                /\ heap[lastOp.ret.num].bytes = heap[render[lastOp.h].buffer].bytes)
    /\ [][/\ \A k \in 1 .. Len(frames) :
                (lastOp'.op = "write" /\ lastOp'.h = k) \/ heap'[frames[k]] = heap[frames[k]]
          /\ lastOp'.op = "write" =>
                \A r \in RenderHandles :
                    render[r].buffer # NULL => heap'[render[r].buffer] = heap[render[r].buffer]
         ]_vars

\* C6 witness: two frames of one handle, one of them written by the script and
\* now different from the other
TwoFramesOneWritten ==
    /\ Len(frames) >= 2
    /\ lastOp.op = "write"
    /\ heap[frames[1]].bytes # heap[frames[2]].bytes
    /\ Len(heap[frames[1]].bytes) = Len(heap[frames[2]].bytes)

\* C7: setProperty makes exactly one native setter call, the one matching the
\* value's type, and returns its status; for a value of any other type it
\* makes no native call and returns -1.
SetPropertyDispatch ==
    (lastOp.op = "setProperty" /\ lastOp.h # 0 /\ lastOp.ret.kind # "crash") =>
        LET v == lastOp.arg
            c == lastOp.calls[1]
        IN
        /\ ~lastOp.raised
        /\ lastOp.ret.kind = "int32"
        /\ v.type = "number" =>
              /\ Len(lastOp.calls) = 1
              /\ c.fn = "mpv_set_property" /\ c.fmt = "double" /\ c.num = v.num
              /\ lastOp.ret.num = c.status
        /\ v.type = "boolean" =>
              /\ Len(lastOp.calls) = 1
              /\ c.fn = "mpv_set_property" /\ c.fmt = "flag"
              /\ c.num = (IF v.bool THEN 1 ELSE 0)
              /\ lastOp.ret.num = c.status
        /\ v.type = "string" =>
              /\ Len(lastOp.calls) = 1
              /\ c.fn = "mpv_set_property_string" /\ c.str = v.str
              /\ lastOp.ret.num = c.status
        /\ v.type \notin {"number", "boolean", "string"} =>
              /\ lastOp.calls = <<>>
              /\ lastOp.ret.num = -1

\* C7 witness: setProperty was given an object
SetPropertyOtherType ==
    /\ lastOp.op = "setProperty"
    /\ lastOp.h # 0
    /\ lastOp.arg.type = "object"
    /\ lastOp.ret.num = -1

RaisesOnlyOnConstruction ==
    /\ lastOp.raised =>
          /\ lastOp.op \in {"create", "renderCreate"}
          /\ lastOp.ret = RetNULL
    /\ (lastOp.op = "create" /\ lastOp.ret.kind # "crash") =>
          (lastOp.raised <=> lastOp.calls[1].num = NULL)
    /\ (lastOp.op = "renderCreate" /\ lastOp.calls # <<>> /\ lastOp.ret.kind # "crash") =>
          (lastOp.raised <=> lastOp.calls[1].status < 0)
    /\ lastOp.op \in {"initialize", "command", "setProperty", "getProperty", "renderFrame",
                      "renderUpdate", "destroy", "renderFree"} => ~lastOp.raised
    /\ (lastOp.op \in {"initialize", "command"} /\ lastOp.h # 0 /\ lastOp.ret.kind # "crash") =>
          lastOp.ret = Ret("int32", lastOp.calls[Len(lastOp.calls)].status, "")

\* C9 witness: initialize returned a negative status without raising
InitializeFailed ==
    /\ lastOp.op = "initialize"
    /\ lastOp.ret.kind = "int32"
    /\ lastOp.ret.num < 0
    /\ ~lastOp.raised

\* C10: a render handle keeps the width and height renderCreate was given;
\* every frame renderFrame hands out has width*height*4 bytes, rendered with a
\* stride of width*4.
DimensionsFixed ==
    /\ \A r \in RenderHandles :
          render[r].width = rArgs[r].width /\ render[r].height = rArgs[r].height
    /\ (lastOp.op = "renderFrame" /\ lastOp.calls # <<>>) =>
          lastOp.calls[1].geom[1] = rArgs[lastOp.h].width
          /\ lastOp.calls[1].geom[2] = rArgs[lastOp.h].height
          /\ lastOp.calls[1].geom[3] = rArgs[lastOp.h].width * 4
    /\ HandedFrame =>
          Len(heap[lastOp.ret.num].bytes) = rArgs[lastOp.h].width * rArgs[lastOp.h].height * 4

\* C10 witness: a frame of a 2 x 1 handle that was rendered to more than once
FrameOfTwoByOne ==
    /\ HandedFrame
    /\ Len(frames) >= 2
    /\ rArgs[lastOp.h].width = 2
    /\ Len(heap[lastOp.ret.num].bytes) = 8

====
